---- MODULE Spec2Model ----
(***************************************************************************)
(* The link list view of plugin-links (console/src/views/LinkList.vue):    *)
(* the in-memory link page, the selection set, the search view, and the    *)
(* asynchronous handlers that write to the resource API and refetch.       *)
(*                                                                         *)
(* The browser runs one handler step at a time; every `await` of a request *)
(* is a suspension point.  A request is first handled by the server (its   *)
(* effect, or its failure, happens there) and its response is delivered to *)
(* the client in a later step, so requests and responses interleave        *)
(* freely with user events.                                                *)
(***************************************************************************)
EXTENDS Integers, Sequences, FiniteSets, TLC

\* ------------------------------------------------------------------ bounds
\* Link identifiers (metadata.name) are 1..MaxLinks.
MaxLinks == 4
\* Identifiers a link can be created with are MaxLinks+1..MaxLinks+MaxNew.
MaxNew == 2
\* Priorities stored on the server before any reorder are 0..MaxPri, or absent.
MaxPri == 1
\* Links on the server where every stored order and priority is tried.
MaxStored == 3
\* Page size offered by the pagination control (the program offers 20..100).
PageSize == 2
\* Pages the pagination control can ask for are 1..MaxPage.
MaxPage == 2
\* Handlers that can be suspended on the network at the same time.
MaxTasks == 2
\* Submissions of the group editing modal that can be unanswered at the same
\* time.
MaxModalReqs == 2
\* Confirmation dialogs of one kind that can be open at the same time.
MaxDialogs == 2
\* Stored links whose identifiers an imported document can carry again are
\* 1..MaxReimport.
MaxReimport == 1

Names == 1..MaxLinks
NewNames == (MaxLinks + 1)..(MaxLinks + MaxNew)
AllNames == Names \cup NewNames

\* An absent spec.priority (undefined in the source).
NoPri == -1
\* An absent object reference (undefined in the source): no selected link,
\* no selected group, no spec.links on a group.
NoLink == 0
NoGroup == [name |-> "none", links |-> <<>>, hasLinks |-> FALSE]

GroupNames == {"g1", "g2"}

\* ------------------------------------------------------------ pure helpers
Range(s) == {s[i] : i \in 1..Len(s)}

Min(a, b) == IF a < b THEN a ELSE b

NamesOf(items) == [i \in 1..Len(items) |-> items[i].name]

\* Array.prototype.findIndex on metadata.name, zero-based, -1 when absent.
RECURSIVE FindFrom(_, _, _)
FindFrom(items, n, i) ==
    IF i > Len(items) THEN -1
    ELSE IF items[i].name = n THEN i - 1
    ELSE FindFrom(items, n, i + 1)

findIndex(items, n) == FindFrom(items, n, 1)

\* `link.spec.priority || 0`: an absent priority, like 0, reads as 0.
PriorityOrZero(p) == IF p = NoPri THEN 0 ELSE p

\* The map callback of handleFetchLinks: default the priority in place.
Normalize(link) == [link EXCEPT !.pri = PriorityOrZero(link.pri)]

\* A sort that is not stable: x goes before the elements it ties with.
RECURSIVE InsertBeforeTies(_, _)
InsertBeforeTies(s, x) ==
    IF s = <<>> THEN <<x>>
    ELSE IF PriorityOrZero(Head(s).pri) - PriorityOrZero(x.pri) < 0
         THEN <<Head(s)>> \o InsertBeforeTies(Tail(s), x)
         ELSE <<x>> \o s

\* Insert x into the sorted sequence s after every element that does not
\* compare greater: the comparator of handleFetchLinks, applied stably.
RECURSIVE InsertSorted(_, _)
InsertSorted(s, x) ==
    IF s = <<>> THEN <<x>>
    ELSE IF PriorityOrZero(Head(s).pri) - PriorityOrZero(x.pri) <= 0
         THEN <<Head(s)>> \o InsertSorted(Tail(s), x)
         ELSE <<x>> \o s

RECURSIVE SortFrom(_, _)
SortFrom(done, rest) ==
    IF rest = <<>> THEN done
    ELSE SortFrom(InsertSorted(done, Head(rest)), Tail(rest))

\* Array.prototype.sort with (a, b) => (a.priority || 0) - (b.priority || 0);
\* the sort is stable.
SortByPriority(items) == SortFrom(<<>>, items)

\* Subsequence of s whose elements satisfy membership in S, order kept.
RECURSIVE KeepNamed(_, _)
KeepNamed(s, S) ==
    IF s = <<>> THEN <<>>
    ELSE IF Head(s).name \in S THEN <<Head(s)>> \o KeepNamed(Tail(s), S)
    ELSE KeepNamed(Tail(s), S)

RECURSIVE DropNamed(_, _)
DropNamed(s, S) ==
    IF s = <<>> THEN <<>>
    ELSE IF Head(s).name \in S THEN DropNamed(Tail(s), S)
    ELSE <<Head(s)>> \o DropNamed(Tail(s), S)

\* Subsequence of a sequence of names that are in S, order kept.
RECURSIVE KeepIn(_, _)
KeepIn(s, S) ==
    IF s = <<>> THEN <<>>
    ELSE IF Head(s) \in S THEN <<Head(s)>> \o KeepIn(Tail(s), S)
    ELSE KeepIn(Tail(s), S)

\* The sequence s with the element at position i moved to position j.
MoveTo(s, i, j) ==
    LET without == [k \in 1..(Len(s) - 1) |-> IF k < i THEN s[k] ELSE s[k + 1]]
    IN  [k \in 1..Len(s) |->
            IF k < j THEN without[k]
            ELSE IF k = j THEN s[i]
            ELSE without[k - 1]]

\* ------------------------------------------------------------------- state
VARIABLES
    srvLinks,       \* server: the link resources, in the order the list API uses
    srvGroups,      \* server: the group resources, by name
    groups,         \* GroupList: the loaded catalog of groups, by name
    links,          \* links.value: page, size, total, items
    loading,        \* loading.value
    selectedLink,   \* selectedLink.value, by metadata.name (NoLink: undefined)
    selectedLinks,  \* selectedLinks.value: the checked identifiers
    selectedGroup,  \* selectedGroup.value (NoGroup: undefined)
    editingModal,   \* editingModal.value
    checkedAll,     \* checkedAll.value
    keyword,        \* keyword.value
    fuse,           \* the Fuse index: the documents it was built over
    searchResults,  \* the cache of the searchResults computed
    download,       \* the records of the last exported document
    tasks,          \* the suspended handlers and their requests
    groupModal,     \* GroupEditingModal: props, initialFormState, formState,
                    \* saving and the request of handleCreateGroup
    dialogs,        \* the open dialogs of handleDelete: how many there are
                    \* for each link (onConfirm keeps the link of its call)
    batchDialogs,   \* the number of open dialogs of handleDeleteInBatch
    last            \* the handler step taken last (history)

vars == <<srvLinks, srvGroups, groups, links, loading, selectedLink,
          selectedLinks, selectedGroup, editingModal, checkedAll, keyword,
          fuse, searchResults, download, tasks, groupModal, dialogs,
          batchDialogs, last>>

server == <<srvLinks, srvGroups>>
selection == <<selectedLinks, checkedAll>>
modals == <<groupModal, dialogs, batchDialogs>>

NoData == [page |-> 0, size |-> 0, total |-> 0, items |-> <<>>]
\* no: the place of the request among the list requests in flight, in the
\* order they were sent (1 is the oldest); late: the response of a request sent after this one
\* has already been assigned to links.value.
NoGet == [st |-> "none", members |-> <<>>, page |-> 0, size |-> 0, data |-> NoData,
          no |-> 0, late |-> FALSE]
NoGroupsGet == [st |-> "none", data |-> [g \in GroupNames |-> NoGroup]]
\* raced: the writes of another reorder gesture were under way together with
\* those of this one (history).
NoTask == [kind |-> "none", pc |-> "done", mute |-> FALSE, reqs |-> <<>>,
           get |-> NoGet, gget |-> NoGroupsGet, names |-> <<>>, raced |-> FALSE]

\* op: the step; kind: the handler it belongs to; ok: how it went; names: the
\* identifiers it acted on; of, good: the handler's own sequence (the order
\* shown at the end of a drag, the records of an import, the created link)
\* and whether every request it awaited has succeeded.
StepOf(op, kind, ok, names, of, good) ==
    [op |-> op, kind |-> kind, ok |-> ok, names |-> names, of |-> of, good |-> good]

Step(op, kind, ok, names) == StepOf(op, kind, ok, names, <<>>, TRUE)

TaskIds == 1..MaxTasks
FreeSlots == {t \in TaskIds : tasks[t].kind = "none"}
Free == CHOOSE t \in FreeSlots : \A u \in FreeSlots : t <= u

InFlight(r) == r.st \in {"sent", "ok", "err"}
AllHandled(t) == \A i \in 1..Len(t.reqs) : t.reqs[i].st # "sent"

\* Every request the handler sent has been answered with success.
AllGot(t) == \A i \in 1..Len(t.reqs) : t.reqs[i].st = "got_ok"

\* A finished handler leaves its slot once the server has handled every
\* request it sent; until then the requests are still on their way.
Retire(t) == IF t.pc = "done" /\ AllHandled(t) THEN NoTask ELSE t

\* --------------------------------------------------------- the search view
Keywords == {"", "x", "y"}

\* spec.displayName, one of the fields the index is keyed on.
DisplayName(n) == IF n % 2 = 1 THEN "x" ELSE "y"

\* fuse.search(keyword).map(item => item.item): the indexed documents that
\* match, in index order (equal scores rank by index).
FuseSearch(fz, kw) == KeepIn(fz.docs, {n \in AllNames : DisplayName(n) = kw})

\* The getter of searchResults, and what it subscribed to.  `!fuse ||
\* !keyword.value` reads the keyword only when the index exists (fuse is a
\* plain variable, not reactive), and the page only when it returns
\* links.value.items: onKeyword and onPage say which of the two the cached
\* value depends on.
Evaluate(kw, fz, lk) ==
    IF ~fz.built \/ kw = ""
    THEN [items |-> NamesOf(lk.items), live |-> TRUE, dirty |-> FALSE,
          onPage |-> TRUE, onKeyword |-> fz.built]
    ELSE [items |-> FuseSearch(fz, kw), live |-> TRUE, dirty |-> FALSE,
          onPage |-> FALSE, onKeyword |-> TRUE]

\* links.value was replaced: a cache subscribed to the page is invalidated;
\* one that is not keeps the objects of the page that was replaced.
Stale == [items |-> <<>>, live |-> TRUE, dirty |-> TRUE, onPage |-> TRUE,
          onKeyword |-> TRUE]

PageReplaced(sr) ==
    IF sr.dirty \/ sr.onPage THEN Stale ELSE [sr EXCEPT !.live = FALSE]

\* links.value.items was assigned (the same link objects, reordered).
ItemsAssigned(sr) == IF sr.dirty \/ sr.onPage THEN Stale ELSE sr

\* keyword.value was assigned: a cache whose getter read the keyword is
\* invalidated; one computed before the index existed is not.
KeywordAssigned(sr) == IF sr.dirty \/ sr.onKeyword THEN Stale ELSE sr

\* The template reads searchResults when it renders the list, which it does
\* unless the loading indicator replaces it (VLoading v-if="loading").
Render(sr, kw, fz, lk, ld) == IF sr.dirty /\ ~ld THEN Evaluate(kw, fz, lk) ELSE sr

\* searchResults.value as a read returns it now.
SearchView == IF searchResults.dirty THEN Evaluate(keyword, fuse, links).items
              ELSE searchResults.items

\* The list of entities is on screen (template: v-else of loading and empty).
ListShown == ~loading /\ SearchView # <<>>

\* ------------------------------------------------------------------ server
\* GET /links with page, size and fieldSelector name=(members).
ListLinks(members, page, size) ==
    LET m == KeepNamed(srvLinks, Range(members))
    IN  [page |-> page, size |-> size, total |-> Len(m),
         items |-> SubSeq(m, (page - 1) * size + 1, Min(page * size, Len(m)))]

Exists(n) == \E i \in 1..Len(srvLinks) : srvLinks[i].name = n

\* PUT /links/{name}: full replacement of an existing link.
ReplaceLink(n, p) ==
    [i \in 1..Len(srvLinks) |->
        IF srvLinks[i].name = n THEN [name |-> n, pri |-> p] ELSE srvLinks[i]]

\* ---------------------------------------------- GroupEditingModal: setup
\* The identifiers uuid() can return.
Uuids == {"u1", "u2"}

\* initialFormState as the setup of the component builds it around the
\* identifier u that its one call of uuid() returned: no creationTimestamp,
\* spec.links = [].
NewGroupForm(u) ==
    [group |-> [name |-> u, links |-> <<>>, hasLinks |-> TRUE],
     created |-> FALSE]

\* cloneDeep(props.group): a group of the catalog carries a creationTimestamp.
FormOf(grp) == [group |-> grp, created |-> TRUE]

\* The component after setup: props at their defaults, formState the ref
\* over initialFormState, saving false.
GroupModalSetup(u) ==
    [visible |-> FALSE, group |-> NoGroup, initialFormState |-> NewGroupForm(u),
     formState |-> NewGroupForm(u), saving |-> FALSE, reqs |-> <<>>]

\* -------------------------------------------------------------------- Init
\* The link resources the server can hold at the start: every order of the
\* identifiers, every stored priority.
RECURSIVE Orders(_)
Orders(S) ==
    IF S = {} THEN {<<>>}
    ELSE UNION {{<<n>> \o o : o \in Orders(S \ {n})} : n \in S}

Priorities == {NoPri} \cup 0..MaxPri

InitialLinks ==
    {[i \in 1..MaxStored |-> [name |-> o[i], pri |-> p[i]]] :
        o \in Orders(1..MaxStored), p \in [1..MaxStored -> Priorities]}

\* The groups on the server: g1 holds every link, g2 carries no spec.links.
InitialGroups ==
    [g \in GroupNames |->
        IF g = "g1" THEN [name |-> g, links |-> [i \in 1..MaxLinks |-> i], hasLinks |-> TRUE]
        ELSE [name |-> g, links |-> <<>>, hasLinks |-> FALSE]]

InitView(linkSeqs) ==
    /\ srvLinks \in linkSeqs
    /\ srvGroups = InitialGroups
    /\ groups = InitialGroups
    /\ links = [page |-> 1, size |-> PageSize, total |-> 0, items |-> <<>>]
    /\ loading = FALSE
    /\ selectedLink = NoLink
    /\ selectedLinks = <<>>
    /\ selectedGroup = NoGroup
    /\ editingModal = FALSE
    /\ checkedAll = FALSE
    /\ keyword = ""
    /\ fuse = [built |-> FALSE, docs |-> <<>>]
    /\ searchResults = Evaluate("", [built |-> FALSE, docs |-> <<>>],
                                [page |-> 1, size |-> PageSize, total |-> 0, items |-> <<>>])
    /\ download = [made |-> FALSE, records |-> <<>>]
    /\ tasks = [t \in TaskIds |-> NoTask]
    /\ dialogs = [n \in AllNames |-> 0]
    /\ batchDialogs = 0
    /\ last = Step("init", "none", TRUE, <<>>)

\* The view and, beside it, a group editing modal that has been set up.
InitWith(linkSeqs) ==
    /\ InitView(linkSeqs)
    /\ groupModal = GroupModalSetup("u1")

\* ------------------------------------------------------- handleFetchLinks
\* The part of handleFetchLinks that runs before its await: the loading flag
\* (set unless muted, cleared by `finally` when the group has no spec.links
\* and the function returns at once) ...
FetchLoading(mute, grp) ==
    IF ~grp.hasLinks THEN FALSE ELSE IF mute THEN loading ELSE TRUE

\* The place a list request sent now takes: after every one in flight.
NextNo == 1 + Cardinality({t \in TaskIds : tasks[t].get.st # "none"})

\* ... and the list request, which carries the page and size of links.value
\* and the membership of the selected group as they are at the call.
FetchGet(lk, grp) ==
    IF grp.hasLinks
    THEN [st |-> "sent", members |-> grp.links, page |-> lk.page,
          size |-> lk.size, data |-> NoData, no |-> NextNo, late |-> FALSE]
    ELSE NoGet

\* A call of handleFetchLinks that nothing awaits.
CallFetch(mute, lk, grp) ==
    /\ grp.hasLinks => FreeSlots # {}
    /\ loading' = FetchLoading(mute, grp)
    /\ tasks' = IF grp.hasLinks
                THEN [tasks EXCEPT ![Free] =
                        [NoTask EXCEPT !.kind = "fetch", !.pc = "fetch",
                                       !.mute = mute, !.get = FetchGet(lk, grp)]]
                ELSE tasks

\* The server answers a list request, or the request fails.
ServeList(t) ==
    /\ tasks[t].get.st = "sent"
    /\ \E ok \in BOOLEAN :
        LET g == tasks[t].get IN
        tasks' = [tasks EXCEPT ![t].get =
                    IF ok THEN [g EXCEPT !.st = "ok", !.data = ListLinks(g.members, g.page, g.size)]
                    ELSE [g EXCEPT !.st = "err"]]
    /\ UNCHANGED <<server, groups, links, loading, selectedLink, selection,
                   selectedGroup, editingModal, keyword, fuse, searchResults,
                   download, last>>
    /\ UNCHANGED modals

\* links.value of a response: its items with the priority defaulted, sorted.
FetchedPage(data) ==
    [page |-> data.page, size |-> data.size, total |-> data.total,
     items |-> SortByPriority([i \in 1..Len(data.items) |-> Normalize(data.items[i])])]

\* A fetch that assigns whatever it got, failed or not.
PageOfAnyResponse(ok, data, lk) == FetchedPage(data)

\* links.value after the try/catch of handleFetchLinks: the assignment is the
\* last statement of the try, so a failure before it leaves links.value alone.
PageAfterFetch(ok, data, lk) == IF ok THEN FetchedPage(data) ELSE lk

\* The rest of handleFetchLinks once the response is there: replace
\* links.value (try), log (catch), clear the loading flag (finally).  The
\* watcher on links.value rebuilds the index over the new items.
FetchReturns(t) ==
    /\ tasks[t].pc = "fetch"
    /\ tasks[t].get.st \in {"ok", "err"}
    /\ LET ok == tasks[t].get.st = "ok"
           lk == PageAfterFetch(ok, tasks[t].get.data, links)
       IN  /\ links' = lk
           /\ fuse' = IF ok THEN [built |-> TRUE, docs |-> NamesOf(lk.items)] ELSE fuse
           /\ loading' = FALSE
           /\ searchResults' =
                Render(IF ok THEN PageReplaced(searchResults) ELSE searchResults,
                       keyword, fuse', lk, FALSE)
           /\ tasks' =
                [u \in TaskIds |->
                    IF u = t
                    THEN Retire([tasks[t] EXCEPT !.pc = "done", !.get = NoGet])
                    ELSE IF tasks[u].get.st = "none" THEN tasks[u]
                    ELSE IF tasks[u].get.no > tasks[t].get.no
                    THEN [tasks[u] EXCEPT !.get.no = @ - 1]
                    ELSE [tasks[u] EXCEPT !.get.late = @ \/ ok]]
           /\ last' = StepOf("fetched", tasks[t].kind, ok,
                             IF ok THEN NamesOf(tasks[t].get.data.items) ELSE <<>>,
                             tasks[t].names, AllGot(tasks[t]) /\ ~tasks[t].raced)
    /\ UNCHANGED <<server, groups, selectedLink, selection, selectedGroup,
                   editingModal, keyword, download>>
    /\ UNCHANGED modals

\* GroupList: a group is clicked; v-model:selected-group takes it and
\* @select calls handleFetchLinks().
handleSelectGroup(g) ==
    /\ selectedGroup' = groups[g]
    /\ CallFetch(FALSE, links, groups[g])
    /\ searchResults' = Render(searchResults, keyword, fuse, links, loading')
    /\ last' = Step("select", "fetch", groups[g].hasLinks, <<>>)
    /\ UNCHANGED <<server, groups, links, selectedLink, selection,
                   editingModal, keyword, fuse, download>>
    /\ UNCHANGED modals

handlePaginationChange(page, size) ==
    /\ links' = [links EXCEPT !.page = page, !.size = size]
    /\ CallFetch(FALSE, links', selectedGroup)
    /\ searchResults' = Render(searchResults, keyword, fuse, links', loading')
    /\ last' = Step("page", "fetch", selectedGroup.hasLinks, <<>>)
    /\ UNCHANGED <<server, groups, selectedLink, selection, selectedGroup,
                   editingModal, keyword, fuse, download>>
    /\ UNCHANGED modals

\* The refresh button of the empty state: @click="handleFetchLinks".
handleRefresh ==
    /\ ~loading /\ SearchView = <<>>
    /\ CallFetch(FALSE, links, selectedGroup)
    /\ searchResults' = Render(searchResults, keyword, fuse, links, loading')
    /\ last' = Step("refresh", "fetch", selectedGroup.hasLinks, <<>>)
    /\ UNCHANGED <<server, groups, links, selectedLink, selection,
                   selectedGroup, editingModal, keyword, fuse, download>>
    /\ UNCHANGED modals

\* The editing modal closes: @close="handleFetchLinks({ mute: true })".
handleModalClose ==
    /\ editingModal
    /\ editingModal' = FALSE
    /\ CallFetch(TRUE, links, selectedGroup)
    /\ searchResults' = Render(searchResults, keyword, fuse, links, loading')
    /\ last' = Step("close", "fetch", selectedGroup.hasLinks, <<>>)
    /\ UNCHANGED <<server, groups, links, selectedLink, selection,
                   selectedGroup, keyword, fuse, download>>
    /\ UNCHANGED modals

\* ------------------------------------------------- requests of a handler
Req(verb, n, p, g, ms) ==
    [verb |-> verb, name |-> n, pri |-> p, grp |-> g.name, links |-> ms,
     st |-> "sent"]

\* Whether the server accepts the request as it stands: a replacement or a
\* delete of a resource it holds, a create under a name it does not hold.
Accepts(r) ==
    CASE r.verb = "put" -> Exists(r.name)
      [] r.verb = "delete" -> Exists(r.name)
      [] r.verb = "post" -> ~Exists(r.name)
      [] OTHER -> r.grp \in DOMAIN srvGroups

LinksAfter(r) ==
    CASE r.verb = "put" -> ReplaceLink(r.name, r.pri)
      [] r.verb = "delete" -> DropNamed(srvLinks, {r.name})
      [] r.verb = "post" -> Append(srvLinks, [name |-> r.name, pri |-> r.pri])
      [] OTHER -> srvLinks

GroupsAfter(r) ==
    IF r.verb = "putGroup"
    THEN [srvGroups EXCEPT ![r.grp] =
            [name |-> r.grp, links |-> r.links, hasLinks |-> TRUE]]
    ELSE srvGroups

\* The handler is suspended on its requests (await Promise.all / await put).
Awaiting(t) == t.pc = "reqs"

\* The server handles one request: it takes effect, or it fails and changes
\* nothing.  The response travels back only if the handler still awaits it.
ServeReq(t, i) ==
    /\ i \in 1..Len(tasks[t].reqs)
    /\ tasks[t].reqs[i].st = "sent"
    /\ \E ok \in BOOLEAN :
        LET r == tasks[t].reqs[i]
            good == ok /\ Accepts(r)
            st == IF Awaiting(tasks[t])
                  THEN (IF good THEN "ok" ELSE "err")
                  ELSE (IF good THEN "got_ok" ELSE "got_err")
        IN  /\ srvLinks' = IF good THEN LinksAfter(r) ELSE srvLinks
            /\ srvGroups' = IF good THEN GroupsAfter(r) ELSE srvGroups
            /\ tasks' = [tasks EXCEPT ![t] = Retire([tasks[t] EXCEPT !.reqs[i].st = st])]
    /\ UNCHANGED <<groups, links, loading, selectedLink, selection, selectedGroup,
                   editingModal, keyword, fuse, searchResults, download, last>>
    /\ UNCHANGED modals

\* A handler reaches its call of handleFetchLinks: the task tk goes on to
\* await the list request, or is finished when there is nothing to fetch.
EnterFetch(t, mute, tk) ==
    /\ loading' = FetchLoading(mute, selectedGroup)
    /\ tasks' = [tasks EXCEPT ![t] =
                    IF selectedGroup.hasLinks
                    THEN [tk EXCEPT !.pc = "fetch", !.mute = mute,
                                    !.get = FetchGet(links, selectedGroup)]
                    ELSE Retire([tk EXCEPT !.pc = "done"])]

\* The muted refetch of handleSaveInBatch, the refetch of handleDeleteInBatch
\* and of handleImportFromYaml (their `finally`).
MuteOf(kind) == kind = "save"

\* A response reaches the handler awaiting it.  Promise.all rejects on the
\* first failure and fulfils when every request has succeeded; handleSaveInBatch,
\* handleDeleteInBatch and handleImportFromYaml then run their `finally`
\* (the refetch).  onLinkSaved has no try: a failed write ends it, a
\* successful one lets it go on to handleFetchGroups.
ReqReturns(t, i) ==
    /\ Awaiting(tasks[t])
    /\ i \in 1..Len(tasks[t].reqs)
    /\ tasks[t].reqs[i].st \in {"ok", "err"}
    /\ LET ok == tasks[t].reqs[i].st = "ok"
           tk == [tasks[t] EXCEPT !.reqs[i].st = IF ok THEN "got_ok" ELSE "got_err"]
           settled == ~ok \/ AllGot(tk)
       IN  /\ IF ~settled
              THEN /\ tasks' = [tasks EXCEPT ![t] = tk]
                   /\ UNCHANGED loading
              ELSE IF tk.kind = "saved"
              THEN /\ tasks' = [tasks EXCEPT ![t] =
                                  IF ok THEN [tk EXCEPT !.pc = "groups", !.gget.st = "sent"]
                                  ELSE Retire([tk EXCEPT !.pc = "done"])]
                   /\ UNCHANGED loading
              ELSE EnterFetch(t, MuteOf(tk.kind), tk)
           /\ last' = StepOf(IF settled THEN "settled" ELSE "response", tk.kind, ok,
                             <<>>, tk.names, AllGot(tk))
    /\ searchResults' = Render(searchResults, keyword, fuse, links, loading')
    /\ UNCHANGED <<server, groups, links, selectedLink, selection, selectedGroup,
                   editingModal, keyword, fuse, download>>
    /\ UNCHANGED modals

\* ------------------------------------------------------ handleSaveInBatch
\* A renumbering that counts positions from one.
RenumberFromOne(items) == [i \in 1..Len(items) |-> [items[i] EXCEPT !.pri = i]]

\* `link.spec.priority = index` on every item of links.value.items.
Renumber(items) == [i \in 1..Len(items) |-> [items[i] EXCEPT !.pri = i - 1]]

\* One update request per item, carrying the item as it is after the write.
SaveRequests(items) ==
    [i \in 1..Len(items) |-> Req("put", items[i].name, items[i].pri, NoGroup, <<>>)]

\* A drag ends: Draggable assigns the reordered list through the setter of
\* searchResults (links.value.items = value) and emits change, which runs
\* handleSaveInBatch up to its await.  The drag handle is rendered only
\* while no keyword is set.
handleSaveInBatch(i, j) ==
    /\ ListShown /\ keyword = ""
    /\ i \in 1..Len(links.items) /\ j \in 1..Len(links.items) /\ i # j
    /\ FreeSlots # {}
    /\ LET items == Renumber(MoveTo(links.items, i, j)) IN
        /\ links' = [links EXCEPT !.items = items]
        /\ tasks' =
              [t \in TaskIds |->
                  IF t = Free
                  THEN [NoTask EXCEPT !.kind = "save", !.pc = "reqs",
                                      !.reqs = SaveRequests(items),
                                      !.names = NamesOf(items),
                                      !.raced = \E u \in TaskIds : tasks[u].kind = "save"]
                  ELSE IF tasks[t].kind = "save"
                  THEN [tasks[t] EXCEPT !.raced = TRUE]
                  ELSE tasks[t]]
        /\ last' = Step("drag", "save", TRUE, NamesOf(items))
    /\ searchResults' = Render(ItemsAssigned(searchResults), keyword, fuse, links', loading)
    /\ UNCHANGED <<server, groups, loading, selectedLink, selection, selectedGroup,
                   editingModal, keyword, fuse, download>>
    /\ UNCHANGED modals

\* ------------------------------------------------------------ onLinkSaved
\* groupToUpdate.spec.links.push(link.metadata.name) on the deep copy.
GroupToUpdate(grp, n) == [grp EXCEPT !.links = Append(grp.links, n)]

\* LinkEditingModal has created link n and emits saved.  With a group
\* selected the handler writes the whole group and awaits the write; the
\* push throws when the group carries no spec.links, which ends the handler;
\* with no group selected it goes straight on to handleFetchGroups.
onLinkSaved(n) ==
    /\ editingModal
    /\ n \in NewNames /\ ~Exists(n)
    /\ FreeSlots # {}
    /\ srvLinks' = Append(srvLinks, [name |-> n, pri |-> 0])
    /\ tasks' =
        IF selectedGroup = NoGroup
        THEN [tasks EXCEPT ![Free] =
                [NoTask EXCEPT !.kind = "saved", !.pc = "groups",
                               !.gget.st = "sent", !.names = <<n>>]]
        ELSE IF ~selectedGroup.hasLinks
        THEN tasks
        ELSE [tasks EXCEPT ![Free] =
                [NoTask EXCEPT !.kind = "saved", !.pc = "reqs", !.names = <<n>>,
                    !.reqs = <<Req("putGroup", 0, 0, selectedGroup,
                                   GroupToUpdate(selectedGroup, n).links)>>]]
    /\ last' = Step("saved", "saved", selectedGroup = NoGroup \/ selectedGroup.hasLinks, <<n>>)
    /\ UNCHANGED <<srvGroups, groups, links, loading, selectedLink, selection,
                   selectedGroup, editingModal, keyword, fuse, searchResults, download>>
    /\ UNCHANGED modals

\* The server answers the list of groups, or the request fails.
ServeGroups(t) ==
    /\ tasks[t].gget.st = "sent"
    /\ \E ok \in BOOLEAN :
        tasks' = [tasks EXCEPT ![t].gget =
                    IF ok THEN [st |-> "ok", data |-> srvGroups]
                    ELSE [st |-> "err", data |-> NoGroupsGet.data]]
    /\ UNCHANGED <<server, groups, links, loading, selectedLink, selection,
                   selectedGroup, editingModal, keyword, fuse, searchResults,
                   download, last>>
    /\ UNCHANGED modals

\* GroupList.handleFetchGroups returns: the catalog is the groups of the
\* response; a failure is logged.  Whether GroupList also hands the reloaded
\* entry of the selected group to v-model:selected-group is its own affair
\* (rebind): either can be the case.  onLinkSaved then calls
\* handleFetchLinks().
GroupsReturn(t) ==
    /\ tasks[t].pc = "groups"
    /\ tasks[t].gget.st \in {"ok", "err"}
    /\ \E rebind \in BOOLEAN :
       LET ok == tasks[t].gget.st = "ok"
           cat == IF ok THEN tasks[t].gget.data ELSE groups
           sel == IF rebind /\ ok /\ selectedGroup # NoGroup
                  THEN cat[selectedGroup.name]
                  ELSE selectedGroup
           tk == [tasks[t] EXCEPT !.gget = NoGroupsGet]
       IN  /\ groups' = cat
           /\ selectedGroup' = sel
           /\ loading' = FetchLoading(FALSE, sel)
           /\ tasks' = [tasks EXCEPT ![t] =
                          IF sel.hasLinks
                          THEN [tk EXCEPT !.pc = "fetch", !.get = FetchGet(links, sel)]
                          ELSE Retire([tk EXCEPT !.pc = "done"])]
           /\ last' = StepOf("groups", "saved", ok, <<>>, tk.names, AllGot(tk))
    /\ searchResults' = Render(searchResults, keyword, fuse, links, loading')
    /\ UNCHANGED <<server, links, selectedLink, selection, editingModal,
                   keyword, fuse, download>>
    /\ UNCHANGED modals

\* ----------------------------------------------------------------- deletes
\* The number of dialogs of handleDelete that are open.
RECURSIVE CountOpen(_, _)
CountOpen(d, S) ==
    IF S = {} THEN 0
    ELSE LET n == CHOOSE x \in S : TRUE IN d[n] + CountOpen(d, S \ {n})

OpenDialogs == CountOpen(dialogs, AllNames)

\* The delete entry of a shown link is clicked: handleDelete opens a dialog,
\* whose onConfirm keeps the link, and returns.  Every call opens one, also
\* beside dialogs that are open already.
handleDelete(n) ==
    /\ ListShown /\ n \in Range(SearchView)
    /\ OpenDialogs < MaxDialogs
    /\ dialogs' = [dialogs EXCEPT ![n] = @ + 1]
    /\ last' = Step("askDelete", "del", TRUE, <<n>>)
    /\ UNCHANGED <<server, groups, links, loading, selectedLink, selection,
                   selectedGroup, editingModal, keyword, fuse, searchResults,
                   download, tasks, groupModal, batchDialogs>>

\* A dialog made for link n is dismissed: nothing is sent.
cancelDelete(n) ==
    /\ dialogs[n] > 0
    /\ dialogs' = [dialogs EXCEPT ![n] = @ - 1]
    /\ last' = Step("cancelDelete", "del", TRUE, <<n>>)
    /\ UNCHANGED <<server, groups, links, loading, selectedLink, selection,
                   selectedGroup, editingModal, keyword, fuse, searchResults,
                   download, tasks, groupModal, batchDialogs>>

\* A confirmation that awaits its delete request before it refetches.
onConfirmDeleteAwaited(n) ==
    /\ dialogs[n] > 0
    /\ FreeSlots # {}
    /\ dialogs' = [dialogs EXCEPT ![n] = @ - 1]
    /\ tasks' = [tasks EXCEPT ![Free] =
                    [NoTask EXCEPT !.kind = "del", !.names = <<n>>, !.pc = "reqs",
                        !.reqs = <<Req("delete", n, 0, NoGroup, <<>>)>>]]
    /\ last' = Step("delete", "del", TRUE, <<n>>)
    /\ UNCHANGED <<server, groups, links, loading, selectedLink, selection,
                   selectedGroup, editingModal, keyword, fuse, searchResults,
                   download, groupModal, batchDialogs>>

\* A dialog made for link n is confirmed, whatever has happened to the page
\* and to other dialogs since the click: the delete request for n is sent
\* and not awaited, and handleFetchLinks() is called at once.
onConfirmDelete(n) ==
    /\ dialogs[n] > 0
    /\ FreeSlots # {}
    /\ dialogs' = [dialogs EXCEPT ![n] = @ - 1]
    /\ loading' = FetchLoading(FALSE, selectedGroup)
    /\ tasks' = [tasks EXCEPT ![Free] =
                    [NoTask EXCEPT !.kind = "del", !.names = <<n>>,
                        !.reqs = <<Req("delete", n, 0, NoGroup, <<>>)>>,
                        !.pc = IF selectedGroup.hasLinks THEN "fetch" ELSE "done",
                        !.get = FetchGet(links, selectedGroup)]]
    /\ last' = Step("delete", "del", TRUE, <<n>>)
    /\ searchResults' = Render(searchResults, keyword, fuse, links, loading')
    /\ UNCHANGED <<server, groups, links, selectedLink, selection, selectedGroup,
                   editingModal, keyword, fuse, download, groupModal,
                   batchDialogs>>

DeleteRequests(sel) == [i \in 1..Len(sel) |-> Req("delete", sel[i], 0, NoGroup, <<>>)]

\* The batch delete button, rendered while something is selected, is
\* clicked: handleDeleteInBatch opens a dialog and returns.  Every call
\* opens one, also beside dialogs that are open already.
handleDeleteInBatch ==
    /\ selectedLinks # <<>>
    /\ batchDialogs < MaxDialogs
    /\ batchDialogs' = batchDialogs + 1
    /\ last' = Step("askDeleteBatch", "delBatch", TRUE, selectedLinks)
    /\ UNCHANGED <<server, groups, links, loading, selectedLink, selection,
                   selectedGroup, editingModal, keyword, fuse, searchResults,
                   download, tasks, groupModal, dialogs>>

\* A dialog is dismissed: nothing is sent.
cancelDeleteInBatch ==
    /\ batchDialogs > 0
    /\ batchDialogs' = batchDialogs - 1
    /\ last' = Step("cancelDeleteBatch", "delBatch", TRUE, <<>>)
    /\ UNCHANGED <<server, groups, links, loading, selectedLink, selection,
                   selectedGroup, editingModal, keyword, fuse, searchResults,
                   download, tasks, groupModal, dialogs>>

\* A dialog of handleDeleteInBatch is confirmed: one delete request per
\* entry selectedLinks has now, awaited together; with nothing selected any
\* more there is nothing to await and `finally` refetches at once.
onConfirmDeleteInBatch ==
    /\ batchDialogs > 0
    /\ FreeSlots # {}
    /\ batchDialogs' = batchDialogs - 1
    /\ LET tk == [NoTask EXCEPT !.kind = "delBatch", !.pc = "reqs",
                                !.reqs = DeleteRequests(selectedLinks),
                                !.names = selectedLinks]
       IN  IF selectedLinks = <<>>
           THEN EnterFetch(Free, FALSE, tk)
           ELSE /\ tasks' = [tasks EXCEPT ![Free] = tk]
                /\ UNCHANGED loading
    /\ last' = Step("deleteBatch", "delBatch", TRUE, selectedLinks)
    /\ searchResults' = Render(searchResults, keyword, fuse, links, loading')
    /\ UNCHANGED <<server, groups, links, selectedLink, selection, selectedGroup,
                   editingModal, keyword, fuse, download, groupModal, dialogs>>

\* ------------------------------------------------------------------ export
\* The records of the exported document: yaml.stringify of every item of the
\* page whose name selectedLinks includes, in page order.
ExportRecords(items, sel) == KeepIn(NamesOf(items), Range(sel))

\* The export button (shown while something is selected).
handleExportSelectedLinks ==
    /\ selectedLinks # <<>>
    /\ download' = IF Len(links.items) = 0 THEN download
                   ELSE [made |-> TRUE, records |-> ExportRecords(links.items, selectedLinks)]
    /\ last' = Step("export", "none", Len(links.items) # 0, selectedLinks)
    /\ UNCHANGED <<server, groups, links, loading, selectedLink, selection,
                   selectedGroup, editingModal, keyword, fuse, searchResults, tasks>>
    /\ UNCHANGED modals

\* ------------------------------------------------------------------ import
\* What yaml.parse makes of the chosen file: nothing (no data), one record,
\* or a sequence of records.  A record is the link it describes.
RECURSIVE SeqsUpTo(_, _)
SeqsUpTo(S, n) ==
    IF n = 0 THEN {<<>>}
    ELSE SeqsUpTo(S, n - 1) \cup
         {Append(q, x) : q \in {r \in SeqsUpTo(S, n - 1) : Len(r) = n - 1}, x \in S}

\* The identifiers a record of a document can carry: new ones, and those of
\* links that are or were on the server (a document exported earlier).
RecordNames == NewNames \cup 1..MaxReimport

Documents ==
    {[shape |-> "none", records |-> <<>>]} \cup
    {[shape |-> "single", records |-> <<n>>] : n \in RecordNames} \cup
    {[shape |-> "array", records |-> q] : q \in SeqsUpTo(RecordNames, MaxNew)}

\* An import that posts the first record only.
ImportFirstRecord(doc) ==
    [i \in 1..Min(1, Len(doc.records)) |->
        Req("post", doc.records[i], NoPri, NoGroup, <<>>)]

\* parsed.map(link => apiClient.post(..., link)), or the one post.
ImportRequests(doc) ==
    [i \in 1..Len(doc.records) |-> Req("post", doc.records[i], NoPri, NoGroup, <<>>)]

\* A file is chosen.  Without data the handler returns and its `finally`
\* refetches; an empty sequence has nothing to await and refetches too.
handleImportFromYaml(doc) ==
    /\ FreeSlots # {}
    /\ LET tk == [NoTask EXCEPT !.kind = "import", !.pc = "reqs",
                                !.reqs = ImportRequests(doc), !.names = doc.records]
       IN  IF doc.records = <<>>
           THEN EnterFetch(Free, FALSE, tk)
           ELSE /\ tasks' = [tasks EXCEPT ![Free] = tk]
                /\ UNCHANGED loading
    /\ last' = Step("import", "import", doc.shape # "none", doc.records)
    /\ searchResults' = Render(searchResults, keyword, fuse, links, loading')
    /\ UNCHANGED <<server, groups, links, selectedLink, selection, selectedGroup,
                   editingModal, keyword, fuse, download>>
    /\ UNCHANGED modals

\* --------------------------------------------------------------- selection
\* The checkbox of a listed link (v-model="selectedLinks"): Vue assigns a new
\* array with the name added or removed, and the watcher on selectedLinks
\* recomputes checkedAll.
handleCheck(n) ==
    /\ ListShown /\ n \in Range(SearchView)
    /\ selectedLinks' = IF n \in Range(selectedLinks)
                        THEN SelectSeq(selectedLinks, LAMBDA x : x # n)
                        ELSE Append(selectedLinks, n)
    /\ checkedAll' = (Len(selectedLinks') = Len(links.items))
    /\ last' = Step("check", "none", n \notin Range(selectedLinks), <<n>>)
    /\ UNCHANGED <<server, groups, links, loading, selectedLink, selectedGroup,
                   editingModal, keyword, fuse, searchResults, download, tasks>>
    /\ UNCHANGED modals

\* A select-all that adds the page to what is already selected.
CheckAllAdds(checked, items, sel) ==
    IF checked
    THEN sel \o SelectSeq(NamesOf(items), LAMBDA n : n \notin Range(sel))
    ELSE <<>>

\* selectedLinks after handleCheckAllChange: the names of links.value.items,
\* or the array emptied.
CheckAll(checked, items, sel) == IF checked THEN NamesOf(items) ELSE <<>>

\* The header checkbox changes to `checked`.  Checking assigns a new array
\* (the watcher runs); unchecking truncates the array in place (it does not).
handleCheckAllChange(checked) ==
    /\ checked = ~checkedAll
    /\ selectedLinks' = CheckAll(checked, links.items, selectedLinks)
    /\ checkedAll' = IF checked THEN Len(selectedLinks') = Len(links.items) ELSE FALSE
    /\ last' = Step("checkAll", "none", checked, <<>>)
    /\ UNCHANGED <<server, groups, links, loading, selectedLink, selectedGroup,
                   editingModal, keyword, fuse, searchResults, download, tasks>>
    /\ UNCHANGED modals

\* The keyword input (shown while nothing is selected).
handleKeyword(k) ==
    /\ selectedLinks = <<>>
    /\ k # keyword
    /\ keyword' = k
    /\ searchResults' = Render(KeywordAssigned(searchResults), k, fuse, links, loading)
    /\ last' = Step("keyword", "none", k # "", <<>>)
    /\ UNCHANGED <<server, groups, links, loading, selectedLink, selection,
                   selectedGroup, editingModal, fuse, download, tasks>>
    /\ UNCHANGED modals

\* ------------------------------------------------------------- navigation
\* The edit entry of a shown link: selectedLink and editingModal are
\* assigned whenever it is clicked, also while the modal is open.
handleOpenCreateModal(n) ==
    /\ ListShown /\ n \in Range(SearchView)
    /\ selectedLink' = n
    /\ editingModal' = TRUE
    /\ last' = Step("open", "none", TRUE, <<n>>)
    /\ UNCHANGED <<server, groups, links, loading, selection, selectedGroup,
                   keyword, fuse, searchResults, download, tasks>>
    /\ UNCHANGED modals

\* The "new" buttons: editingModal = true.
handleOpenNew ==
    /\ ~editingModal
    /\ editingModal' = TRUE
    /\ last' = Step("new", "none", TRUE, <<>>)
    /\ UNCHANGED <<server, groups, links, loading, selectedLink, selection,
                   selectedGroup, keyword, fuse, searchResults, download, tasks>>
    /\ UNCHANGED modals

SelectedIndex == findIndex(links.items, selectedLink)

PreviousOf(items, cur) ==
    IF findIndex(items, cur) > 0 THEN items[findIndex(items, cur)].name
    ELSE NoLink

handleSelectPrevious ==
    /\ editingModal
    /\ selectedLink' = PreviousOf(links.items, selectedLink)
    /\ last' = Step("previous", "none", SelectedIndex > 0,
                    IF selectedLink = NoLink THEN <<>> ELSE <<selectedLink>>)
    /\ UNCHANGED <<server, groups, links, loading, selection, selectedGroup,
                   editingModal, keyword, fuse, searchResults, download, tasks>>
    /\ UNCHANGED modals

\* links.value.items[k] for a zero-based k; undefined beyond the array.
ItemAt(items, k) == IF k + 1 \in 1..Len(items) THEN items[k + 1].name ELSE NoLink

\* A navigator that clears the selection at the end of the page.
NextOrClear(items, cur) ==
    IF cur = NoLink THEN ItemAt(items, 0)
    ELSE IF findIndex(items, cur) # Len(items) - 1
         THEN ItemAt(items, findIndex(items, cur) + 1)
         ELSE NoLink

NextOf(items, cur) ==
    IF cur = NoLink THEN ItemAt(items, 0)
    ELSE IF findIndex(items, cur) # Len(items) - 1
         THEN ItemAt(items, findIndex(items, cur) + 1)
         ELSE cur

handleSelectNext ==
    /\ editingModal
    /\ selectedLink' = NextOf(links.items, selectedLink)
    /\ last' = Step("next", "none", selectedLink # NoLink,
                    IF selectedLink = NoLink THEN <<>> ELSE <<selectedLink>>)
    /\ UNCHANGED <<server, groups, links, loading, selection, selectedGroup,
                   editingModal, keyword, fuse, searchResults, download, tasks>>
    /\ UNCHANGED modals

\* ------------------------------------------------------ GroupEditingModal
\* What the modal actions leave alone: the whole of the link view.
view == <<srvLinks, groups, links, loading, selectedLink, selectedLinks,
          selectedGroup, editingModal, checkedAll, keyword, fuse,
          searchResults, download, tasks, dialogs, batchDialogs>>

\* watch(props): the form becomes a copy of props.group when the modal is
\* visible with a group to edit, and a copy of initialFormState otherwise.
FormOnProps(gm) ==
    IF gm.visible /\ gm.group # NoGroup
    THEN FormOf(gm.group)
    ELSE gm.initialFormState

\* The props after the parent has changed them, the watcher having run.
WithProps(gm, visible, grp) ==
    LET p == [gm EXCEPT !.visible = visible, !.group = grp]
    IN  [p EXCEPT !.formState = FormOnProps(p)]

\* The groups the parent can hand over for editing, and none (null).
GroupProps == {NoGroup} \cup {groups[g] : g \in GroupNames}

\* The parent shows the modal, with a group of its catalog to edit or with
\* none to create one.
openGroupModal(grp) ==
    /\ ~groupModal.visible
    /\ groupModal' = WithProps(groupModal, TRUE, grp)
    /\ last' = Step("open", "groupModal", grp = NoGroup, <<>>)
    /\ UNCHANGED <<view, srvGroups>>

\* onVisibleChange(false), from the cancel button or the modal itself: the
\* update:visible event takes the visible prop of v-model:visible to false.
onVisibleChange ==
    /\ groupModal.visible
    /\ groupModal' = WithProps(groupModal, FALSE, groupModal.group)
    /\ last' = Step("close", "groupModal", TRUE, <<>>)
    /\ UNCHANGED <<view, srvGroups>>

\* The form is submitted, whether or not an earlier submission is still
\* unanswered: saving is set and the form goes out, as a put when it carries
\* a creationTimestamp and as a post otherwise.
handleCreateGroup ==
    /\ groupModal.visible
    /\ Len(groupModal.reqs) < MaxModalReqs
    /\ groupModal' =
          [groupModal EXCEPT
              !.saving = TRUE,
              !.reqs = Append(@,
                  [st |-> "sent",
                   verb |-> IF groupModal.formState.created THEN "put" ELSE "post",
                   grp |-> groupModal.formState.group.name,
                   group |-> groupModal.formState.group])]
    /\ last' = Step("submit", "groupModal", ~groupModal.formState.created, <<>>)
    /\ UNCHANGED <<view, srvGroups>>

\* Whether the server takes the group request: a post under a name no group
\* has, a put of a group it holds.
AcceptsGroup(r) ==
    IF r.verb = "post" THEN r.grp \notin DOMAIN srvGroups
    ELSE r.grp \in DOMAIN srvGroups

\* The groups once the request has taken effect: the group of the form is
\* stored under its name, created by a post and replaced by a put.
GroupsWith(r) ==
    [g \in DOMAIN srvGroups \cup {r.grp} |->
        IF g = r.grp THEN r.group ELSE srvGroups[g]]

\* The server handles a request of the modal: it takes effect, or it fails
\* and changes nothing.
ServeGroupReq(i) ==
    /\ i \in 1..Len(groupModal.reqs)
    /\ groupModal.reqs[i].st = "sent"
    /\ \E ok \in BOOLEAN :
          LET good == ok /\ AcceptsGroup(groupModal.reqs[i])
          IN  /\ srvGroups' = IF good THEN GroupsWith(groupModal.reqs[i]) ELSE srvGroups
              /\ groupModal' = [groupModal EXCEPT
                                  !.reqs[i].st = IF good THEN "ok" ELSE "err"]
    /\ UNCHANGED <<view, last>>

\* The requests but the i-th.
WithoutReq(reqs, i) == SubSeq(reqs, 1, i - 1) \o SubSeq(reqs, i + 1, Len(reqs))

\* The rest of a handleCreateGroup whose response is there:
\* onVisibleChange(false) after a success, the log after a failure, saving
\* cleared by `finally`, whatever other submission is still unanswered.
GroupReqReturns(i) ==
    /\ i \in 1..Len(groupModal.reqs)
    /\ groupModal.reqs[i].st \in {"ok", "err"}
    /\ LET ok == groupModal.reqs[i].st = "ok"
           gm == [groupModal EXCEPT !.saving = FALSE,
                                    !.reqs = WithoutReq(@, i)]
       IN  /\ groupModal' = IF ok THEN WithProps(gm, FALSE, gm.group) ELSE gm
           /\ last' = Step("settled", "groupModal", ok, <<>>)
    /\ UNCHANGED <<view, srvGroups>>

SizeOptions == {PageSize}

\* One stored state of the links: priorities that the sort has to reorder,
\* one of them absent.
SampleLinks ==
    {[i \in 1..MaxLinks |->
        [name |-> i, pri |-> IF i = 1 THEN MaxPri ELSE IF i = 2 THEN NoPri ELSE 0]]}

\* A store that holds one page of links.
OnePageOfLinks ==
    {[i \in 1..PageSize |-> [name |-> i, pri |-> IF i = 1 THEN MaxPri ELSE NoPri]]}

\* ---------------------------------------------------------- specifications
\* Fetching: group selection, paging and refresh, over every stored order
\* and priority of the links.
FetchNext ==
    \/ \E g \in GroupNames : handleSelectGroup(g)
    \/ \E p \in 1..MaxPage, z \in SizeOptions : handlePaginationChange(p, z)
    \/ handleRefresh
    \/ \E t \in TaskIds : ServeList(t)
    \/ \E t \in TaskIds : FetchReturns(t)

\* The loading flag: the fetches above and the muted fetch of the modal.
LoadingNext ==
    \/ \E g \in GroupNames : handleSelectGroup(g)
    \/ \E p \in 1..MaxPage, z \in SizeOptions : handlePaginationChange(p, z)
    \/ handleRefresh
    \/ handleOpenNew
    \/ handleModalClose
    \/ \E t \in TaskIds : ServeList(t)
    \/ \E t \in TaskIds : FetchReturns(t)

\* Navigation in the editing modal over the fetched page.
NavNext ==
    \/ \E g \in GroupNames : handleSelectGroup(g)
    \/ \E p \in 1..MaxPage, z \in SizeOptions : handlePaginationChange(p, z)
    \/ \E n \in AllNames : handleOpenCreateModal(n)
    \/ handleOpenNew
    \/ handleSelectPrevious
    \/ handleSelectNext
    \/ handleModalClose
    \/ \E t \in TaskIds : ServeList(t)
    \/ \E t \in TaskIds : FetchReturns(t)

\* The selection set over fetched pages and search views.
SelectNext ==
    \/ \E g \in GroupNames : handleSelectGroup(g)
    \/ \E p \in 1..MaxPage, z \in SizeOptions : handlePaginationChange(p, z)
    \/ \E n \in AllNames : handleCheck(n)
    \/ \E c \in BOOLEAN : handleCheckAllChange(c)
    \/ \E k \in Keywords : handleKeyword(k)
    \/ \E t \in TaskIds : ServeList(t)
    \/ \E t \in TaskIds : FetchReturns(t)

\* Export of the selection over fetched pages.
ExportNext ==
    \/ handleSelectGroup("g1")
    \/ \E p \in 1..MaxPage, z \in SizeOptions : handlePaginationChange(p, z)
    \/ \E n \in AllNames : handleCheck(n)
    \/ handleExportSelectedLinks
    \/ \E t \in TaskIds : ServeList(t)
    \/ \E t \in TaskIds : FetchReturns(t)

\* The search view over fetched pages.
SearchNext ==
    \/ \E g \in GroupNames : handleSelectGroup(g)
    \/ \E p \in 1..MaxPage, z \in SizeOptions : handlePaginationChange(p, z)
    \/ \E k \in Keywords : handleKeyword(k)
    \/ \E t \in TaskIds : ServeList(t)
    \/ \E t \in TaskIds : FetchReturns(t)

\* Reordering on the first page of the group that has links; gestures may
\* overlap each other and the fetches.
ReorderNext ==
    \/ handleSelectGroup("g1")
    \/ \E i, j \in 1..PageSize : handleSaveInBatch(i, j)
    \/ \E t \in TaskIds : ServeList(t)
    \/ \E t \in TaskIds : FetchReturns(t)
    \/ \E t \in TaskIds, i \in 1..PageSize : ServeReq(t, i)
    \/ \E t \in TaskIds, i \in 1..PageSize : ReqReturns(t, i)

\* Creation of links from the editing modal, in either group and in none.
CreateNext ==
    \/ \E g \in GroupNames : handleSelectGroup(g)
    \/ handleOpenNew
    \/ \E n \in NewNames : onLinkSaved(n)
    \/ handleModalClose
    \/ \E t \in TaskIds : ServeReq(t, 1)
    \/ \E t \in TaskIds : ReqReturns(t, 1)
    \/ \E t \in TaskIds : ServeGroups(t)
    \/ \E t \in TaskIds : GroupsReturn(t)
    \/ \E t \in TaskIds : ServeList(t)
    \/ \E t \in TaskIds : FetchReturns(t)

\* Import of documents whose records are all new links, with the group that
\* has links selected or none.
ImportNext ==
    \/ handleSelectGroup("g1")
    \/ \E doc \in {d \in Documents : Range(d.records) \subseteq NewNames} :
          handleImportFromYaml(doc)
    \/ \E t \in TaskIds, i \in 1..MaxNew : ServeReq(t, i)
    \/ \E t \in TaskIds, i \in 1..MaxNew : ReqReturns(t, i)
    \/ \E t \in TaskIds : ServeList(t)
    \/ \E t \in TaskIds : FetchReturns(t)

\* Single deletes in the group that has links.  The handler awaits nothing,
\* so no response of a delete request is ever delivered to it.
DeleteNext ==
    \/ handleSelectGroup("g1")
    \/ \E n \in Names : handleDelete(n)
    \/ \E n \in Names : cancelDelete(n)
    \/ \E n \in Names : onConfirmDelete(n)
    \/ \E t \in TaskIds : ServeReq(t, 1)
    \/ \E t \in TaskIds : ServeList(t)
    \/ \E t \in TaskIds : FetchReturns(t)

\* Batch deletes in the group that has links, of a page checked as a whole;
\* dialogs may be open beside each other, and batches may overlap each other
\* and the fetches.
DeleteBatchNext ==
    \/ handleSelectGroup("g1")
    \/ handleCheckAllChange(TRUE)
    \/ handleDeleteInBatch
    \/ cancelDeleteInBatch
    \/ onConfirmDeleteInBatch
    \/ \E t \in TaskIds, i \in 1..PageSize : ServeReq(t, i)
    \/ \E t \in TaskIds, i \in 1..PageSize : ReqReturns(t, i)
    \/ \E t \in TaskIds : ServeList(t)
    \/ \E t \in TaskIds : FetchReturns(t)

\* The group editing modal: opened to create or to edit, submitted, closed.
GroupModalNext ==
    \/ \E grp \in GroupProps : openGroupModal(grp)
    \/ onVisibleChange
    \/ handleCreateGroup
    \/ \E i \in 1..MaxModalReqs : ServeGroupReq(i)
    \/ \E i \in 1..MaxModalReqs : GroupReqReturns(i)

Init == InitWith(SampleLinks)

\* The view beside a modal whose uuid() returned any of the identifiers.
InitGroupModal ==
    /\ InitView(SampleLinks)
    /\ groupModal \in {GroupModalSetup(u) : u \in Uuids}

InitAny == InitWith(InitialLinks)

SpecFetch == InitAny /\ [][FetchNext]_vars

SpecLoading == Init /\ [][LoadingNext]_vars

SpecNav == Init /\ [][NavNext]_vars

SpecSelect == Init /\ [][SelectNext]_vars

SpecExport == Init /\ [][ExportNext]_vars

SpecSearch == Init /\ [][SearchNext]_vars

\* Import of documents of one record, which may carry the identifier of a
\* link deleted before: single deletes and imports in the group that has
\* links.
ReimportNext ==
    \/ handleSelectGroup("g1")
    \/ \E n \in 1..MaxReimport : handleDelete(n)
    \/ \E n \in 1..MaxReimport : onConfirmDelete(n)
    \/ \E doc \in {d \in Documents : d.shape = "single"} : handleImportFromYaml(doc)
    \/ \E t \in TaskIds : ServeReq(t, 1)
    \/ \E t \in TaskIds : ReqReturns(t, 1)
    \/ \E t \in TaskIds : ServeList(t)
    \/ \E t \in TaskIds : FetchReturns(t)

SpecReorder == Init /\ [][ReorderNext]_vars

SpecCreate == Init /\ [][CreateNext]_vars

SpecImport == Init /\ [][ImportNext]_vars

SpecReimport == Init /\ [][ReimportNext]_vars

InitOnePage == InitWith(OnePageOfLinks)

SpecDelete == InitOnePage /\ [][DeleteNext]_vars

SpecDeleteBatch == InitOnePage /\ [][DeleteBatchNext]_vars

SpecGroupModal == InitGroupModal /\ [][GroupModalNext]_vars

\* ------------------------------------------------------------------ claims
PositionIn(s, n) == CHOOSE i \in 1..Len(s) : s[i] = n

StoredPriority(n) == (CHOOSE i \in 1..Len(srvLinks) : srvLinks[i].name = n)

\* C2: after every successful fetch the in-memory page is the stable sort,
\* by priority with an absent priority counted as 0, of the items the server
\* returned: the same items, ascending by priority, and items of equal
\* priority in the order the server returned them.
C2_FetchedPageIsStableSort ==
    (last.op = "fetched" /\ last.ok) =>
        /\ Len(links.items) = Len(last.names)
        /\ Range(NamesOf(links.items)) = Range(last.names)
        /\ \A i \in 1..Len(links.items) :
            links.items[i].pri =
                LET p == srvLinks[StoredPriority(links.items[i].name)].pri
                IN  IF p = NoPri THEN 0 ELSE p
        /\ \A i, j \in 1..Len(links.items) :
            i < j =>
                /\ links.items[i].pri <= links.items[j].pri
                /\ links.items[i].pri = links.items[j].pri =>
                     PositionIn(last.names, links.items[i].name)
                       < PositionIn(last.names, links.items[j].name)

\* A fetch has returned two items that tie at priority 0, the second of them
\* stored without a priority, and the page keeps them in the server's order.
C2_Witness ==
    /\ last.op = "fetched" /\ last.ok
    /\ Len(last.names) = 2
    /\ srvLinks[1].pri = 0 /\ srvLinks[2].pri = NoPri
    /\ last.names = <<srvLinks[1].name, srvLinks[2].name>>
    /\ NamesOf(links.items) = last.names

\* The step is a call of handleFetchLinks made while the selected group is
\* absent or carries no membership sequence.
NoOpFetchStep ==
    /\ last' # last
    /\ last'.op \in {"select", "page", "refresh", "close"}
    /\ ~last'.ok

\* C9: when the selected group is absent or has no membership sequence, a
\* fetch is a no-op: it issues no list request and leaves the in-memory link
\* page and the loading flag as they were before the call.
C9_NoMembershipFetchIsNoOp ==
    [][NoOpFetchStep =>
          /\ tasks' = tasks
          /\ links'.items = links.items /\ links'.total = links.total
          /\ last'.op # "page" => links' = links
          /\ loading' = loading]_vars

\* The part of C9 that the code keeps: no request, the page untouched.
C9_NoRequestNoPageChange ==
    [][NoOpFetchStep =>
          /\ tasks' = tasks
          /\ links'.items = links.items /\ links'.total = links.total
          /\ last'.op # "page" => links' = links
          /\ loading' = FALSE]_vars

\* The link that was selected when the navigation step last taken began.
Before == IF last.names = <<>> THEN NoLink ELSE last.names[1]

FirstName == links.items[1].name
LastName == links.items[Len(links.items)].name

\* C8 as stated: sequential navigation never wraps; "previous" from the first
\* item clears the selected link, "next" from the last item clears it, and
\* "next" with no link selected selects the first item.
C8_BoundariesClear ==
    /\ (last.op = "previous" /\ links.items # <<>> /\ Before = FirstName)
          => selectedLink = NoLink
    /\ (last.op = "next" /\ links.items # <<>> /\ Before = LastName)
          => selectedLink = NoLink
    /\ (last.op = "next" /\ links.items # <<>> /\ Before = NoLink)
          => selectedLink = FirstName

\* C8 as the code has it: navigation never wraps; "previous" from the first
\* item clears the selected link, "next" from the last item leaves the last
\* item selected, and "next" with no link selected selects the first item.
C8_NoWrapAround ==
    /\ (last.op = "previous" /\ links.items # <<>> /\ Before = FirstName)
          => selectedLink = NoLink
    /\ (last.op = "next" /\ links.items # <<>> /\ Before = LastName)
          => selectedLink = LastName
    /\ (last.op = "next" /\ links.items # <<>> /\ Before = NoLink)
          => selectedLink = FirstName
    /\ (last.op = "previous" /\ Len(links.items) > 1 /\ Before = FirstName)
          => selectedLink # LastName
    /\ (last.op = "next" /\ Len(links.items) > 1 /\ Before = LastName)
          => selectedLink # FirstName

\* "next" was taken on the last item of a page of two.
C8_Witness ==
    /\ last.op = "next"
    /\ Len(links.items) = 2
    /\ Before = LastName
    /\ selectedLink = LastName

\* C6: with no search keyword active, toggleAll(true) makes the selection set
\* exactly the identifiers of all items of the in-memory full page, and
\* toggleAll(false) makes it empty.
C6_ToggleAllSelectsPage ==
    (last.op = "checkAll" /\ keyword = "") =>
        IF last.ok
        THEN /\ Range(selectedLinks) = Range(NamesOf(links.items))
             /\ Len(selectedLinks) = Len(links.items)
        ELSE selectedLinks = <<>>

\* Select-all was switched on over a fetched page of two items.
C6_Witness ==
    /\ last.op = "checkAll" /\ last.ok /\ keyword = ""
    /\ Len(links.items) = 2
    /\ Range(selectedLinks) = Range(NamesOf(links.items))

\* C5: export serializes exactly one record for each selected link and none
\* for an unselected one: with M identifiers selected and a page of N >= M
\* items it produces M records, in page order.
C5_ExportOneRecordPerSelected ==
    (last.op = "export" /\ links.items # <<>>
        /\ Len(selectedLinks) <= Len(links.items)) =>
        /\ Len(download.records) = Len(selectedLinks)
        /\ Range(download.records) = Range(selectedLinks)
        /\ download.records = KeepIn(NamesOf(links.items), Range(download.records))

\* C7: in every reachable state the search view contains only items that are
\* entries of the in-memory full page (the same objects, not copies), for
\* every keyword; and for the empty keyword it is the full page in its order.
C7_SearchViewWithinPage ==
    /\ Range(SearchView) \subseteq Range(NamesOf(links.items))
    /\ searchResults.dirty \/ searchResults.live
    /\ keyword = "" => SearchView = NamesOf(links.items)

\* The part of C7 that the code keeps: with the empty keyword the search
\* view is the full page, in its order.
C7_EmptyKeywordIsPage ==
    keyword = "" => SearchView = NamesOf(links.items)

\* C1: when a reorder gesture ends on a loaded page with no keyword active
\* and every update request of it succeeds, then after the follow-up refetch
\* the stored priority of every link of that page is its zero-based position
\* in the sequence displayed at gesture end.
C1_ReorderPersistsPagePositions ==
    [][\A t \in TaskIds :
          (/\ tasks[t].kind = "save" /\ tasks[t].pc = "fetch"
           /\ tasks'[t].pc # "fetch" /\ AllGot(tasks[t])) =>
              \A i \in 1..Len(tasks[t].names) :
                  /\ Exists(tasks[t].names[i])
                  /\ srvLinks[StoredPriority(tasks[t].names[i])].pri = i - 1]_vars

\* C1 for a gesture whose writes no other reorder gesture's writes overlap:
\* when every update request of it has succeeded, then after the follow-up
\* refetch the stored priority of every link of the page is its zero-based
\* position in the sequence displayed at gesture end.
C1_AloneReorderPersistsPagePositions ==
    (last.op = "fetched" /\ last.kind = "save" /\ last.good) =>
        \A i \in 1..Len(last.of) :
            /\ Exists(last.of[i])
            /\ srvLinks[StoredPriority(last.of[i])].pri = i - 1

\* The refetch after a successful reorder that ran alone has returned: the
\* two links of the page, shown 2, 1 and stored without a priority and with
\* priority 1, were left in the order 1, 2 and are stored with priorities 0
\* and 1.
C1_Witness ==
    /\ last.op = "fetched" /\ last.kind = "save" /\ last.good /\ last.ok
    /\ last.of = <<1, 2>>
    /\ NamesOf(links.items) = <<1, 2>>
    /\ links.items[1].pri = 0 /\ links.items[2].pri = 1
    /\ srvLinks[StoredPriority(1)].pri = 0 /\ srvLinks[StoredPriority(2)].pri = 1

\* C10: the muted refetch of a reorder gesture is sent only after every
\* update request of the gesture has settled: while the list request of the
\* refetch is on its way no update request of the gesture is still in flight.
C10_RefetchAfterAllSettled ==
    \A t \in TaskIds :
        (tasks[t].kind = "save" /\ tasks[t].pc = "fetch" /\ tasks[t].get.st = "sent") =>
            \A i \in 1..Len(tasks[t].reqs) : tasks[t].reqs[i].st # "sent"

\* The handlers of onLinkSaved that are under way.
Creations == {t \in TaskIds : tasks[t].kind = "saved"}

\* What C3 says of a state: right after the creation the handler is on one
\* full-replacement write of the selected group whose membership is the
\* group's sequence with the new identifier appended; the refetch of the
\* groups follows the write and the refetch of the link page follows that;
\* and once the write is done the stored membership contains the new
\* identifier.
CreationInOrder ==
    /\ (last.op = "saved" /\ selectedGroup # NoGroup) =>
          \E t \in Creations :
             /\ tasks[t].pc = "reqs" /\ tasks[t].names = last.names
             /\ tasks[t].gget.st = "none" /\ tasks[t].get.st = "none"
             /\ Len(tasks[t].reqs) = 1
             /\ tasks[t].reqs[1].verb = "putGroup"
             /\ tasks[t].reqs[1].grp = selectedGroup.name
             /\ tasks[t].reqs[1].links = selectedGroup.links \o last.names
    /\ \A t \in Creations :
          /\ tasks[t].pc = "groups" =>
                /\ AllGot(tasks[t])
                /\ tasks[t].get.st = "none"
          /\ tasks[t].pc = "fetch" =>
                /\ AllGot(tasks[t])
                /\ tasks[t].gget.st = "none"
          /\ (tasks[t].pc \in {"groups", "fetch"} /\ tasks[t].reqs # <<>>) =>
                tasks[t].names[1] \in Range(srvGroups[tasks[t].reqs[1].grp].links)

\* C3: creating a link while group G is selected performs, in this order,
\* one full-replacement write of G whose membership is G's previous sequence
\* with the new identifier appended, then the refetch of the groups, then the
\* refetch of the link page; after the write G's stored membership contains
\* the new identifier; and over consecutive creations no identifier appended
\* earlier is lost: no step takes an identifier out of a stored membership.
C3_CreateAppendsThenRefetches ==
    [][/\ CreationInOrder'
       /\ \A g \in GroupNames :
             Range(srvGroups[g].links) \subseteq Range(srvGroups'[g].links)]_vars

\* The handlers of handleImportFromYaml that are under way.
Imports == {t \in TaskIds : tasks[t].kind = "import"}

\* C4: importing a document that deserializes to K records (a sequence of K,
\* or a single record: K = 1) issues exactly K create requests, one for each
\* record; and when all of them succeed, K further links exist on the server
\* after the refetch that follows: the K records, on top of the links there
\* were.
C4_ImportCreatesEveryRecord ==
    /\ (last.op = "import" /\ last.names # <<>>) =>
          \E t \in Imports :
             /\ tasks[t].pc = "reqs" /\ tasks[t].names = last.names
             /\ Len(tasks[t].reqs) = Len(last.names)
             /\ \A i \in 1..Len(last.names) :
                   /\ tasks[t].reqs[i].verb = "post"
                   /\ tasks[t].reqs[i].name = last.names[i]
    /\ (last.op = "fetched" /\ last.kind = "import" /\ last.good) =>
          /\ \A i \in 1..Len(last.of) : Exists(last.of[i])
          /\ \A i, j \in 1..Len(last.of) : last.of[i] = last.of[j] => i = j
          /\ Range(last.of) \cap Names = {}
          /\ Len(srvLinks) >= MaxLinks + Len(last.of)

\* The refetch after the import of a sequence of two records has returned,
\* both create requests having succeeded: the server holds two more links.
C4_Witness ==
    /\ last.op = "fetched" /\ last.kind = "import" /\ last.good
    /\ Len(last.of) = 2
    /\ Len(srvLinks) = MaxLinks + 2
    /\ \A i \in 1..2 : Exists(last.of[i])

\* C11: every write operation is followed by a refetch of the link page also
\* when a request of it fails: once the requests a write handler awaited have
\* settled with a failure, and the selected group has links to fetch, the
\* handler is on its list request.
C11_FailedWriteStillRefetches ==
    (last.op = "settled" /\ ~last.ok /\ selectedGroup.hasLinks) =>
        \E t \in TaskIds :
            /\ tasks[t].kind = last.kind /\ tasks[t].names = last.of
            /\ tasks[t].pc \in {"groups", "fetch"}

\* The step is one of a muted fetch: its call (the editing modal closes), or
\* its return with the response.
MutedFetchStep ==
    \/ last' # last /\ last'.op = "close"
    \/ \E t \in TaskIds :
          /\ tasks[t].pc = "fetch" /\ tasks[t].mute
          /\ tasks'[t].pc # "fetch"

\* C12: a muted fetch never changes the loading flag: over every
\* interleaving, also with a non-muted fetch in flight, the loading flag
\* after a step of a muted fetch is what it was before the step.
C12_MutedFetchKeepsLoading == [][MutedFetchStep => loading' = loading]_vars

\* C13: when a fetch fails it still resolves, the loading flag is false
\* afterwards, and the in-memory link page is exactly what it was before:
\* nothing of the failed response is retained.
C13_FailedFetchKeepsPage ==
    [][\A t \in TaskIds :
          (tasks[t].pc = "fetch" /\ tasks[t].get.st = "err" /\ tasks'[t].pc # "fetch") =>
              /\ links' = links
              /\ loading' = FALSE
              /\ tasks'[t].get.st = "none"]_vars

\* A fetch has failed over a loaded page of two items, which is still there.
C13_Witness ==
    /\ last.op = "fetched" /\ ~last.ok
    /\ Len(links.items) = 2
    /\ ~loading

\* C15: a confirmed batch delete issues exactly one delete request per
\* identifier of the selection and, once those requests have completed
\* (all succeeded or any of them failed), one refetch of the link page: while
\* the list request of the refetch is on its way no delete request of the
\* batch is still in flight.
C15_BatchDeleteThenOneRefetch ==
    /\ last.op = "deleteBatch" =>
          \E t \in TaskIds :
             /\ tasks[t].kind = "delBatch" /\ tasks[t].names = last.names
             /\ Len(tasks[t].reqs) = Len(last.names)
             /\ \A i \in 1..Len(last.names) :
                   /\ tasks[t].reqs[i].verb = "delete"
                   /\ tasks[t].reqs[i].name = last.names[i]
    /\ \A t \in TaskIds :
          (tasks[t].kind = "delBatch" /\ tasks[t].pc = "fetch" /\ tasks[t].get.st = "sent") =>
              \A i \in 1..Len(tasks[t].reqs) : tasks[t].reqs[i].st # "sent"

\* The handlers of handleDelete that are under way.
Deletes == {t \in TaskIds : tasks[t].kind = "del"}

\* C16: a confirmed single delete issues its delete request and starts the
\* refetch of the link page without waiting for the outcome of the delete:
\* the handler is never suspended on the delete request, and right after the
\* confirmation its list request is under way together with the delete.
C16_DeleteDoesNotWait ==
    /\ \A t \in Deletes :
          /\ tasks[t].pc # "reqs"
          /\ Len(tasks[t].reqs) = 1 /\ tasks[t].reqs[1].verb = "delete"
          /\ tasks[t].reqs[1].name = tasks[t].names[1]
    /\ (last.op = "delete" /\ selectedGroup.hasLinks) =>
          \E t \in Deletes :
             /\ tasks[t].names = last.names
             /\ tasks[t].pc = "fetch" /\ tasks[t].get.st # "none"

\* The delete has been requested and not yet handled, the refetch of the
\* same handler has completed with success, and the in-memory page still
\* contains the link.
C16_Witness ==
    /\ last.op = "fetched" /\ last.kind = "del" /\ last.ok
    /\ \E t \in Deletes :
          /\ tasks[t].names = last.of
          /\ tasks[t].pc = "done"
          /\ tasks[t].reqs[1].st = "sent"
          /\ tasks[t].names[1] \in Range(NamesOf(links.items))
          /\ Exists(tasks[t].names[1])

\* C17: after every change of the selection set (a link checked or
\* unchecked, select-all switched on or off) the "all selected" flag is true
\* exactly when the number of selected identifiers equals the number of
\* items of the in-memory full page.
C17_CheckedAllIffCountsEqual ==
    last.op \in {"check", "checkAll"} =>
        (checkedAll <=> Len(selectedLinks) = Len(links.items))

\* C18: in every reachable state the selection set contains only
\* identifiers of links that are in the in-memory loaded page.
C18_SelectionWithinPage ==
    Range(selectedLinks) \subseteq Range(NamesOf(links.items))

\* What C18 concludes for the batch delete: every delete request of a batch
\* is for a link of the loaded page.
C18_BatchDeletesWithinPage ==
    last.op = "deleteBatch" => Range(last.names) \subseteq Range(NamesOf(links.items))

\* C19: the response of an earlier fetch that arrives after the response of
\* a later fetch never overwrites the later one: when the list request of a
\* fetch returns after the response to a request sent after it has been
\* assigned, the in-memory link page stays what it is.
C19_LateResponseNeverOverwrites ==
    [][\A t \in TaskIds :
          (/\ tasks[t].pc = "fetch" /\ tasks[t].get.st = "ok" /\ tasks[t].get.late
           /\ tasks'[t].pc # "fetch") => links' = links]_vars

\* C20: import leaves every group unchanged: the requests of an import are
\* link create requests only, never a group write; the groups on the server
\* stay what they were; and once an import whose create requests all
\* succeeded and its refetch have completed, no record of the import is in
\* the membership sequence of any group.
C20_ImportLeavesGroupsUnchanged ==
    /\ \A t \in Imports : \A i \in 1..Len(tasks[t].reqs) :
          tasks[t].reqs[i].verb = "post"
    /\ srvGroups = InitialGroups
    /\ (last.op = "fetched" /\ last.kind = "import" /\ last.good) =>
          \A g \in GroupNames : Range(last.of) \cap Range(srvGroups[g].links) = {}

\* The groups created through the modal: those on the server beside the
\* ones it held from the start.
CreatedGroups == DOMAIN srvGroups \ GroupNames

\* C21: any two groups created one after the other through the same modal
\* are posted with distinct identifiers: whenever the closed modal is opened
\* with no group to edit, the identifier of its form differs from that of
\* every group created through it before.
C21_ReopenedFormHasNewIdentifier ==
    [][(~groupModal.visible /\ groupModal'.visible /\ groupModal'.group = NoGroup) =>
          groupModal'.formState.group.name \notin CreatedGroups]_vars

====
